---- MODULE Spec2Model ----
(***************************************************************************)
(* A model of PyLeagueV2: the rate-limited fetcher (fetch.py), the rating  *)
(* treatment (treatment.py), the store operations (database.py) and the    *)
(* two crawler workers (main.py).                                          *)
(*                                                                         *)
(* Four specifications share the variables:                                *)
(*   SpecFetch   BaseFetcher.fetch, one instance per worker;               *)
(*   SpecRating  the ladder workers while the ladder standings change;     *)
(*   Spec        the ladder workers and the match workers on one store;    *)
(*   SpecGames   one match worker on a match history of several pages.     *)
(***************************************************************************)
EXTENDS Integers, Sequences, FiniteSets, TLC

VARIABLES
    fetcher,    \* fetcher[w]: the attributes of worker w's BaseFetcher instance
    fcall,      \* fcall[w]: the fetch call in progress on that instance
    now,        \* the store's clock, func.now()
    ladder,     \* the API's current standing of each ranked summoner
    ratings,    \* table ratings: the rows of each summonerId, in insertion order
    players,    \* table players: puuid -> row (puuid is UNIQUE)
    matches,    \* table matches: the rows in insertion order
    stats,      \* table stats: the rows in insertion order
    collation,  \* how the store compares the strings of players.region
    api,        \* the match history the API serves
    lc,         \* lc[r]: the sub_region_fetching worker of sub-region r
    mc          \* mc[R]: the main_region_fetching worker of main region R

fetchVars == <<fetcher, fcall>>
storeVars == <<ratings, players, matches, stats>>
vars ==
    <<fetcher, fcall, now, ladder, ratings, players, matches, stats, collation,
      api, lc, mc>>

(***************************************************************************)
(* Bounds.                                                                 *)
(***************************************************************************)
\* fetch calls made through one instance
MaxCalls == 3
\* requests and sleeps of one fetch call
MaxLogLen == 4
\* the last value of the clock, under Spec and under SpecRating
MaxTime == 2
MaxRatingTime == 3

(***************************************************************************)
(* fetch.py: BaseFetcher                                                   *)
(***************************************************************************)
\* One fetcher instance per crawling worker (SubRegionFetcher.__init__ and
\* MainRegionFetcher.__init__ each build their own BaseFetcher).
FetchWorkers == {"sub", "main"}

\* The responses the API can give: a status and the Retry-After header.
Responses ==
    [status : {200, 429, 500, 404}, hasRetryAfter : BOOLEAN, retryAfter : {1, 5}]

HasAttr(obj, name) == name \in DOMAIN obj

\* BaseFetcher.__init__: the attributes an instance has.
BaseFetcherInit ==
    [api_key |-> "API_KEY", retry_timer |-> 0, retry_count |-> 0,
     session |-> "Session"]

\* int(response.headers.get("Retry-After", 1))
RetryAfterOf(resp) == IF resp.hasRetryAfter THEN resp.retryAfter ELSE 1

NoCall == [pc |-> "idle", log |-> <<>>, error |-> "none", ncalls |-> 0]

Sleep(t) == [ev |-> "sleep", arg |-> t, backoff |-> 0]
\* A request and the response it got: the status, and for a 429 the backoff
\* the response asks for.
Get(resp) ==
    [ev |-> "get", arg |-> resp.status,
     backoff |-> IF resp.status = 429 THEN RetryAfterOf(resp) ELSE 0]

\* A caller enters fetch(url): the while True loop is about to run.
FetchCall(w) ==
    /\ fcall[w].pc \in {"idle", "returned", "raised"}
    /\ fcall[w].ncalls < MaxCalls
    /\ fcall' = [fcall EXCEPT ![w] = [pc |-> "loop", log |-> <<>>,
                                      error |-> "none", ncalls |-> @.ncalls + 1]]
    /\ UNCHANGED fetcher

\* A pass that sleeps for the pending backoff without clearing it: not what
\* the code does.
FetchPassKeepsBackoff(self, resp) ==
    LET evs == IF self.retry_timer > 0
               THEN <<Sleep(self.retry_timer), Get(resp)>>
               ELSE <<Get(resp)>>
    IN  IF resp.status = 200
        THEN [self |-> [self EXCEPT !.retry_count = 0], evs |-> evs,
              pc |-> "returned", error |-> "none"]
        ELSE [self |-> IF resp.status = 429
                       THEN [self EXCEPT !.retry_timer = RetryAfterOf(resp)]
                       ELSE self,
              evs |-> evs, pc |-> "raised", error |-> "AttributeError"]

\* The attributes of the instance after one pass of the loop body that got
\* response resp, and how the pass ended: "loop", "returned" or "raised".
FetchPass(self, resp) ==
    LET slept == self.retry_timer > 0
        s1 == IF slept THEN [self EXCEPT !.retry_timer = 0] ELSE self
        evs == IF slept THEN <<Sleep(self.retry_timer), Get(resp)>>
                        ELSE <<Get(resp)>>
    IN  IF resp.status = 200
        THEN [self |-> [s1 EXCEPT !.retry_count = 0], evs |-> evs,
              pc |-> "returned", error |-> "none"]
        ELSE IF resp.status = 429
        THEN LET s2 == [s1 EXCEPT !.retry_timer = RetryAfterOf(resp)]
             IN  \* the print reads self.region
                 IF HasAttr(s2, "region")
                 THEN [self |-> s2, evs |-> evs, pc |-> "loop", error |-> "none"]
                 ELSE [self |-> s2, evs |-> evs, pc |-> "raised",
                       error |-> "AttributeError"]
        ELSE \* the elif reads self.retry_counter
             IF ~HasAttr(s1, "retry_counter")
             THEN [self |-> s1, evs |-> evs, pc |-> "raised",
                   error |-> "AttributeError"]
             ELSE IF s1.retry_counter >= 2
             THEN [self |-> s1, evs |-> evs, pc |-> "raised",
                   error |-> "FetchError"]
             ELSE [self |-> [s1 EXCEPT !.retry_counter = @ + 1], evs |-> evs,
                   pc |-> "loop", error |-> "none"]

\* A pass that keeps the pending backoff in one place for all instances (a
\* class attribute): not what the code does.
FetchIterationShared(w) ==
    /\ fcall[w].pc = "loop"
    /\ Len(fcall[w].log) + 2 <= MaxLogLen
    /\ \E resp \in Responses :
         LET r == FetchPass(fetcher[w], resp)
         IN  /\ fetcher' = [v \in FetchWorkers |->
                              IF v = w THEN r.self
                              ELSE [fetcher[v] EXCEPT
                                      !.retry_timer = r.self.retry_timer]]
             /\ fcall' = [fcall EXCEPT ![w] = [@ EXCEPT !.pc = r.pc,
                                                        !.log = @ \o r.evs,
                                                        !.error = r.error]]

\* One pass of the loop of fetch: the pending sleep, the request, the branch
\* on the status.
FetchIteration(w) ==
    /\ fcall[w].pc = "loop"
    /\ Len(fcall[w].log) + 2 <= MaxLogLen
    /\ \E resp \in Responses :
         LET r == FetchPass(fetcher[w], resp)
         IN  /\ fetcher' = [fetcher EXCEPT ![w] = r.self]
             /\ fcall' = [fcall EXCEPT ![w] = [@ EXCEPT !.pc = r.pc,
                                                        !.log = @ \o r.evs,
                                                        !.error = r.error]]

(***************************************************************************)
(* The external API: the ladder and the matches the workers can be given.  *)
(***************************************************************************)
\* main.py regions, cut down to two main regions of one sub-region each.
MainRegions == {"americas", "europe"}
regions == [americas |-> {"br1"}, europe |-> {"euw1"}]
SubRegions == UNION {regions[R] : R \in MainRegions}

\* The brackets and the paged tiers of a sweep (the lists of main.py, the
\* paged ones cut down).
high_elos == <<"challenger", "grandmaster">>
tiers == <<"DIAMOND">>
divisions == <<"I", "II">>
TierOf == [challenger |-> "CHALLENGER", grandmaster |-> "GRANDMASTER"]

Summoners == {"s1", "s2", "s3"}
Puuids == {"p1", "p2", "p3"}

\* league/v4/{rank}leagues: the summoners of a bracket.
HighRankSummoners(r, bracket) ==
    IF r = "br1" /\ bracket = "challenger" THEN <<"s1">>
    ELSE IF r = "euw1" /\ bracket = "challenger" THEN <<"s2">>
    ELSE IF api.world = "entrant" /\ r = "euw1" /\ bracket = "grandmaster"
    THEN <<"s3">>
    ELSE <<>>

\* league/v4/entries/.../{tier}/{division}?page=: the summoners of a page.
RankPageSummoners(r, tier, division, page) ==
    IF r = "br1" /\ tier = "DIAMOND" /\ division = "I" /\ page = 1
    THEN <<"s3">>
    ELSE <<>>

\* summoner/v4/summoners/{id}: the account of a summoner.
SummonerAccount ==
    [s1 |-> [id |-> "s1", puuid |-> "p1", profileIconId |-> "icon1"],
     s2 |-> [id |-> "s2", puuid |-> "p2", profileIconId |-> "icon2"],
     s3 |-> [id |-> "s3", puuid |-> "p3", profileIconId |-> "icon3"]]

\* What a summoner's ladder entry can show.
Standings ==
    {[leaguePoints |-> 0, wins |-> 0, losses |-> 0],
     [leaguePoints |-> 20, wins |-> 1, losses |-> 0]}
FirstStanding == [leaguePoints |-> 0, wins |-> 0, losses |-> 0]

\* One entry of a ladder response.
Entry(s, tier, division) ==
    [summonerId |-> s, tier |-> tier, rank |-> division,
     leaguePoints |-> ladder[s].leaguePoints, wins |-> ladder[s].wins,
     losses |-> ladder[s].losses]

\* get_high_rank: {"tier": ..., "entries": [...]}
HighRankResponse(r, bracket) ==
    LET ss == HighRankSummoners(r, bracket)
    IN  [tier |-> TierOf[bracket],
         entries |-> [i \in 1..Len(ss) |-> Entry(ss[i], TierOf[bracket], "I")]]

\* get_rank_page: [...]
RankPageResponse(r, tier, division, page) ==
    LET ss == RankPageSummoners(r, tier, division, page)
    IN  [i \in 1..Len(ss) |-> Entry(ss[i], tier, division)]

(***************************************************************************)
(* database.py: the ratings table.                                         *)
(***************************************************************************)
\* The sequences that list the elements of set S once each, ordered by the
\* key key[x] of each element x.
OrderBy(S, key) ==
    {q \in [1..Cardinality(S) -> S] :
        /\ \A i, j \in 1..Cardinality(S) : i # j => q[i] # q[j]
        /\ \A i, j \in 1..Cardinality(S) : i < j => key[q[i]] <= key[q[j]]}

\* .first(): the first row, or None.
NoRow == [id |-> 0]
First(q) == IF q = <<>> THEN NoRow ELSE q[1]

\* The rows of summonerId s, each with its place among them.
RatingRows(s) ==
    {[id |-> i, row |-> ratings[s][i]] : i \in 1..Len(ratings[s])}

\* rating_up_to_date: the values the call can return (rows of one fetchTime
\* come in any order).
rating_up_to_date(rating) ==
    LET mine == RatingRows(rating.summonerId)
        FetchTimeOf == [x \in mine |-> x.row.fetchTime]
    IN  {LET last_rating == First(q)
         IN  /\ last_rating # NoRow
             /\ last_rating.row.leaguePoints = rating.leaguePoints
             /\ last_rating.row.wins = rating.wins
             /\ last_rating.row.losses = rating.losses
         : q \in OrderBy(mine, FetchTimeOf)}

\* The new_rating of get_rating_list for one entry.
NewRating(rating, tier, region) ==
    [tier |-> tier, rank |-> rating.rank, wins |-> rating.wins,
     losses |-> rating.losses, leaguePoints |-> rating.leaguePoints,
     summonerId |-> rating.summonerId, region |-> region]

RECURSIVE RatingListFrom(_, _, _, _)
\* The lists get_rating_list can build from entries i.. of the response,
\* tierOf[k] being the tier given to entry k.
RatingListFrom(entries, tierOf, region, i) ==
    IF i > Len(entries) THEN {<<>>}
    ELSE LET new_rating == NewRating(entries[i], tierOf[i], region)
             tails == RatingListFrom(entries, tierOf, region, i + 1)
         IN  UNION {IF up_to_date THEN tails
                    ELSE {<<new_rating>> \o t : t \in tails}
                    : up_to_date \in rating_up_to_date(new_rating)}

\* get_rating_list: the lists it can return.
get_rating_list(rating_response, region, high_rank) ==
    IF high_rank
    THEN LET ResponseTier == [k \in 1..Len(rating_response.entries) |->
                                 rating_response.tier]
         IN  RatingListFrom(rating_response.entries, ResponseTier, region, 1)
    ELSE LET EntryTier == [k \in 1..Len(rating_response) |->
                              rating_response[k].tier]
         IN  RatingListFrom(rating_response, EntryTier, region, 1)

\* insert_player_rating_list: the table after the bulk insert; fetchTime
\* defaults to func.now().
insert_player_rating_list(data_list) ==
    LET Row(d) == [summonerId |-> d.summonerId, tier |-> d.tier,
                   rank |-> d.rank, leaguePoints |-> d.leaguePoints,
                   wins |-> d.wins, losses |-> d.losses, region |-> d.region,
                   fetchTime |-> now]
        Mine(s) == SelectSeq(data_list, LAMBDA d : d.summonerId = s)
    IN  [s \in Summoners |->
            ratings[s] \o [i \in 1..Len(Mine(s)) |-> Row(Mine(s)[i])]]

(***************************************************************************)
(* database.py: the players table.                                         *)
(***************************************************************************)
\* Player.lastMatchFetch default, "2024-05-1 00:00:01": before every other
\* time of the model.
DefaultLastMatchFetch == 0

NULL == "NULL"

\* The store's comparison of region strings: the platform ids of the match
\* payloads are upper case, the region lists of main.py lower case.
Collations == {"case_sensitive", "case_insensitive"}
Fold == [BR1 |-> "br1", EUW1 |-> "euw1", br1 |-> "br1", euw1 |-> "euw1"]
RegionIn(region, regs) ==
    IF collation = "case_sensitive" THEN region \in regs
    ELSE Fold[region] \in regs

None == [puuid |-> "None", lastFetch |-> 0]

\* A selection that orders the rows newest cursor first (order_by desc): not
\* what the code does.
get_next_to_fetch_newest(regs) ==
    LET rows == {players[p] : p \in DOMAIN players}
        filtered == {row \in rows : RegionIn(row.region, regs)}
        Newest == [row \in filtered |-> 0 - row.lastMatchFetch]
    IN  {IF q = <<>> THEN None
         ELSE [puuid |-> q[1].puuid, lastFetch |-> q[1].lastMatchFetch]
         : q \in OrderBy(filtered, Newest)}

\* get_next_to_fetch: the values the call can return (rows of one
\* lastMatchFetch come in any order).
get_next_to_fetch(regs) ==
    LET rows == {players[p] : p \in DOMAIN players}
        filtered == {row \in rows : RegionIn(row.region, regs)}
        LastMatchFetchOf == [row \in filtered |-> row.lastMatchFetch]
    IN  {IF q = <<>> THEN None
         ELSE [puuid |-> q[1].puuid, lastFetch |-> q[1].lastMatchFetch]
         : q \in OrderBy(filtered, LastMatchFetchOf)}

\* A row of players built from a mapping, the columns it lacks defaulted.
PlayerRow(m) ==
    [puuid |-> m.puuid,
     summonerId |-> m.summonerId,
     gameName |-> IF HasAttr(m, "gameName") THEN m.gameName ELSE NULL,
     tagLine |-> IF HasAttr(m, "tagLine") THEN m.tagLine ELSE NULL,
     summonerLevel |->
         IF HasAttr(m, "summonerLevel") THEN m.summonerLevel ELSE NULL,
     profileIconId |-> m.profileIconId,
     lastMatchFetch |-> DefaultLastMatchFetch,
     region |-> m.region]

\* An insert into a table without the UNIQUE constraint on puuid (the row of
\* a stored puuid is written a second time): not what the code does.
insert_player_list_unchecked(data_list) ==
    LET new == {data_list[i].puuid : i \in 1..Len(data_list)}
    IN  [ok |-> TRUE,
         players |->
             [p \in DOMAIN players \cup new |->
                 IF p \in new
                 THEN PlayerRow(data_list[CHOOSE i \in 1..Len(data_list) :
                                              data_list[i].puuid = p])
                 ELSE players[p]]]

\* insert_player_list: all rows or none; a puuid that is stored already, or
\* twice in the list, violates UNIQUE and raises.
insert_player_list(data_list) ==
    LET new == {data_list[i].puuid : i \in 1..Len(data_list)}
        ok == /\ new \cap DOMAIN players = {}
              /\ Cardinality(new) = Len(data_list)
    IN  [ok |-> ok,
         players |->
             IF ok
             THEN [p \in DOMAIN players \cup new |->
                     IF p \in DOMAIN players THEN players[p]
                     ELSE PlayerRow(
                              data_list[CHOOSE i \in 1..Len(data_list) :
                                            data_list[i].puuid = p])]
             ELSE players]

\* insert_starting_point
insert_starting_point(player, region) ==
    LET new_player == [puuid |-> player.puuid,
                       profileIconId |-> player.profileIconId,
                       region |-> region, summonerId |-> player.id]
    IN  insert_player_list(<<new_player>>)

(***************************************************************************)
(* main.py: sub_region_fetching, the ladder worker of one sub-region.      *)
(***************************************************************************)
\* time.sleep(1800), in ticks of the clock of the model.
SweepSleep == 1

LadderStart ==
    [pc |-> "high", hi |-> 1, treated |-> <<>>, k |-> 1, ti |-> 1, di |-> 1,
     page |-> 1, until |-> 0, error |-> "none",
     \* history: the payload of the last run on each bracket or page, and
     \* whether the run just made had the payload of the run before it
     prev |-> <<>>, rerun |-> FALSE]

\* An exception that is recorded while the worker starts over: not what the
\* code does.
RaiseAndRestart(start, error) == [start EXCEPT !.error = error]

\* An exception leaves the while loop: the except clause wraps it in a
\* generic exception and the worker function ends, its locals gone.
Raise(start, error) == [start EXCEPT !.pc = "dead", !.error = error]

\* The run on a payload recorded in the history.
Ran(worker, key, payload) ==
    [worker EXCEPT
        !.rerun = \E i \in 1..Len(worker.prev) :
                      worker.prev[i] = [key |-> key, payload |-> payload],
        !.prev = SelectSeq(@, LAMBDA h : h.key # key)
                     \o <<[key |-> key, payload |-> payload]>>]

\* After a bracket: the next one, or the first page of the first tier.
NextBracket(worker) ==
    IF worker.hi < Len(high_elos)
    THEN [worker EXCEPT !.pc = "high", !.hi = @ + 1]
    ELSE [worker EXCEPT !.pc = "page", !.ti = 1, !.di = 1, !.page = 1]

\* A pagination that asks for the page after an empty one: not what the code
\* does.
NextDivisionPastEmpty(worker) == [worker EXCEPT !.page = @ + 1]

\* After the last page of a division: the next division, the next tier, or
\* the sleep that ends the sweep.
NextDivision(worker) ==
    IF worker.di < Len(divisions)
    THEN [worker EXCEPT !.di = @ + 1, !.page = 1]
    ELSE IF worker.ti < Len(tiers)
    THEN [worker EXCEPT !.ti = @ + 1, !.di = 1, !.page = 1]
    ELSE [worker EXCEPT !.pc = "sleep", !.until = now + SweepSleep]

\* main.py 44-47: fetch a bracket, treat it, insert the treated ratings.
LadderHighRank(r) ==
    /\ lc[r].pc = "high"
    /\ \/ /\ lc' = [lc EXCEPT ![r] = Raise(LadderStart, "FetchError")]
          /\ UNCHANGED ratings
       \/ LET high_rank == HighRankResponse(r, high_elos[lc[r].hi])
          IN  \E treated_rating \in get_rating_list(high_rank, r, TRUE) :
                /\ ratings' = insert_player_rating_list(treated_rating)
                /\ lc' = [lc EXCEPT ![r] =
                            [Ran(@, <<high_elos[lc[r].hi], "", 0>>,
                                 high_rank.entries)
                                EXCEPT !.pc = "check",
                                       !.treated = treated_rating]]
    /\ UNCHANGED <<fetchVars, now, ladder, players, matches, stats, collation, api, mc>>

\* main.py 51-54: is the sub-region initialised?
LadderCheck(r) ==
    /\ lc[r].pc = "check"
    /\ \E next \in get_next_to_fetch({r}) :
         lc' = [lc EXCEPT ![r] =
                  IF next = None /\ lc[r].treated # <<>>
                  THEN [@ EXCEPT !.pc = "seed", !.k = 1]
                  ELSE NextBracket(@)]
    /\ UNCHANGED <<fetchVars, now, ladder, storeVars, collation, api, mc>>

\* main.py 54-60: one starting point.
LadderSeed(r) ==
    /\ lc[r].pc = "seed"
    /\ \/ /\ lc' = [lc EXCEPT ![r] = Raise(LadderStart, "FetchError")]
          /\ UNCHANGED players
       \/ LET summoner == SummonerAccount[lc[r].treated[lc[r].k].summonerId]
              res == insert_starting_point(summoner, r)
          IN  /\ players' = res.players
              /\ lc' = [lc EXCEPT ![r] =
                          IF ~res.ok THEN Raise(LadderStart, "PersistenceError")
                          ELSE IF lc[r].k < Len(lc[r].treated)
                          THEN [@ EXCEPT !.k = @ + 1]
                          ELSE NextBracket(@)]
    /\ UNCHANGED <<fetchVars, now, ladder, ratings, matches, stats, collation, api, mc>>

\* main.py 80-91: one page of a division.
LadderRankPage(r) ==
    /\ lc[r].pc = "page"
    /\ \/ /\ lc' = [lc EXCEPT ![r] = Raise(LadderStart, "FetchError")]
          /\ UNCHANGED ratings
       \/ LET w == lc[r]
              data == RankPageResponse(r, tiers[w.ti], divisions[w.di], w.page)
          IN  IF Len(data) > 0
              THEN \E treated_rating \in get_rating_list(data, r, FALSE) :
                     /\ ratings' = insert_player_rating_list(treated_rating)
                     /\ lc' = [lc EXCEPT ![r] =
                                 [Ran(@, <<tiers[w.ti], divisions[w.di], w.page>>,
                                      data)
                                     EXCEPT !.treated = treated_rating,
                                            !.page = @ + 1]]
              ELSE /\ lc' = [lc EXCEPT ![r] = NextDivision(@)]
                   /\ UNCHANGED ratings
    /\ UNCHANGED <<fetchVars, now, ladder, players, matches, stats, collation, api, mc>>

\* main.py 99: the sleep between two sweeps is over.
LadderSleep(r) ==
    /\ lc[r].pc = "sleep"
    /\ now >= lc[r].until
    /\ lc' = [lc EXCEPT ![r] = [@ EXCEPT !.pc = "high", !.hi = 1]]
    /\ UNCHANGED <<fetchVars, now, ladder, storeVars, collation, api, mc>>

Ladder(r) ==
    \/ LadderHighRank(r)
    \/ LadderCheck(r)
    \/ LadderSeed(r)
    \/ LadderRankPage(r)
    \/ LadderSleep(r)

(***************************************************************************)
(* The external API: the matches.                                          *)
(***************************************************************************)
\* The histories the API can serve: the one match m1 of p1 and p2, or a
\* history of n games of p1 (game 1 the most recent), the second of them
\* aborted. In a third world the match is m1 again and euw1 has a
\* grandmaster, s3, besides its challenger. In a fourth the history of p1
\* has three games and the payload of the newest, played at time 2, lacks a
\* key the treatment reads.
BaseApi == [world |-> "base", n |-> 0]
EntrantApi == [world |-> "entrant", n |-> 0]
BrokenApi == [world |-> "broken", n |-> 3]
BrokenGame == 1
GameCounts == {100, 101, 200}
GameApis == {[world |-> "games", n |-> n] : n \in GameCounts}
AbortedGame == 2
\* The match id of game k (an opaque key: its number).
GameId(k) == k

MatchIds ==
    IF api.n = 0 THEN {"m1"} ELSE 1..api.n

\* A participant of a payload.
Participant(puuid, summonerId, name, icon) ==
    [puuid |-> puuid, summonerId |-> summonerId, riotIdGameName |-> name,
     riotIdTagline |-> "BR1", profileIcon |-> icon, summonerLevel |-> "30"]

\* The payload of game k of p1; the aborted game had p3 in it as well.
GamePayload(k) ==
    [metadata |-> [matchId |-> GameId(k)],
     info |-> [endOfGameResult |-> IF k = AbortedGame THEN "Abort_Unexpected"
                                   ELSE "GameComplete",
               gameCreation |-> 1,
               platformId |-> "BR1",
               participants |->
                   IF k = AbortedGame
                   THEN <<Participant("p1", "s1", "one", "icon1"),
                          Participant("p3", "s3", "three", "icon3")>>
                   ELSE <<Participant("p1", "s1", "one", "icon1")>>]]

\* The payload of game k of p1 where the participant of game BrokenGame has
\* no riotIdGameName.
BrokenPayload(k) ==
    LET whole == Participant("p1", "s1", "one", "icon1")
    IN  [metadata |-> [matchId |-> GameId(k)],
         info |-> [endOfGameResult |-> "GameComplete",
                   gameCreation |-> IF k = BrokenGame THEN 2 ELSE 1,
                   platformId |-> "BR1",
                   participants |->
                       IF k = BrokenGame
                       THEN <<[key \in DOMAIN whole \ {"riotIdGameName"} |->
                                  whole[key]]>>
                       ELSE <<whole>>]]

\* match/v5/matches/{id}: the payload of a match (the fields the treatment
\* reads; gameCreation in ticks of the clock of the model).
MatchPayload ==
    IF api.n = 0
    THEN [m \in {"m1"} |->
            [metadata |-> [matchId |-> "m1"],
             info |-> [endOfGameResult |-> "GameComplete", gameCreation |-> 1,
                       platformId |-> "BR1",
                       participants |->
                           <<Participant("p1", "s1", "one", "icon1"),
                             Participant("p2", "s2", "two", "icon2")>>]]]
    ELSE IF api.world = "broken"
    THEN [k \in 1..api.n |-> BrokenPayload(k)]
    ELSE [k \in 1..api.n |-> GamePayload(k)]

\* count=100 of the match-list request.
MatchPageSize == 100

PlayedIn(puuid, m) ==
    \E i \in 1..Len(MatchPayload[m].info.participants) :
        MatchPayload[m].info.participants[i].puuid = puuid

\* The ids of the API's history, newest first.
MatchHistory ==
    IF api.n = 0 THEN <<"m1">>
    ELSE [k \in 1..api.n |-> GameId(k)]

\* The ids of the matches of puuid that started at start_time or later and
\* have been played by now, newest first.
MatchesSince(puuid, start_time) ==
    SelectSeq(MatchHistory,
              LAMBDA m : /\ PlayedIn(puuid, m)
                         /\ MatchPayload[m].info.gameCreation >= start_time
                         /\ MatchPayload[m].info.gameCreation <= now)

\* q[from..to], cut to the elements q has.
Slice(q, from, to) ==
    [i \in 1..((IF to < Len(q) THEN to ELSE Len(q)) - from + 1) |->
        q[from + i - 1]]

\* A request that leaves start= out of the url, so that every page is the
\* first one: not what the code does.
get_match_list_from_start(puuid, start_date, start_value) ==
    Slice(MatchesSince(puuid, start_date), 1, MatchPageSize)

\* get_match_list(puuid, start_date, start_value): ids start_value+1 to
\* start_value+100 of the list.
get_match_list(puuid, start_date, start_value) ==
    LET all == MatchesSince(puuid, start_date)
    IN  IF start_value >= Len(all) THEN <<>>
        ELSE Slice(all, start_value + 1, start_value + MatchPageSize)

(***************************************************************************)
(* treatment.py: the treatment of a match payload.                         *)
(***************************************************************************)
\* None, as get_match_info returns it: a value with no key of a match.
NoMatchInfo == [none |-> TRUE]

\* A treatment that keeps the aborted games: not what the code does.
get_match_info_any(data) ==
    [matchId |-> data.metadata.matchId, matchStart |-> data.info.gameCreation]

\* get_match_info: None for an aborted game.
get_match_info(data) ==
    IF data.info.endOfGameResult # "Abort_Unexpected"
    THEN [matchId |-> data.metadata.matchId,
          matchStart |-> data.info.gameCreation]
    ELSE NoMatchInfo

\* get_player_info raises: a participant lacks a key the function reads
\* (the except clause re-raises the KeyError as an Exception).
get_player_info_raises(data) ==
    \E i \in 1..Len(data.info.participants) :
        \E key \in {"puuid", "summonerId", "riotIdGameName", "riotIdTagline",
                    "profileIcon", "summonerLevel"} :
            ~HasAttr(data.info.participants[i], key)

\* get_player_info
get_player_info(data) ==
    [i \in 1..Len(data.info.participants) |->
        LET participant == data.info.participants[i]
        IN  [puuid |-> participant.puuid,
             summonerId |-> participant.summonerId,
             gameName |-> participant.riotIdGameName,
             tagLine |-> participant.riotIdTagline,
             profileIconId |-> participant.profileIcon,
             summonerLevel |-> participant.summonerLevel,
             region |-> data.info.platformId]]

\* get_player_stats: the two keys insert_stats_list resolves.
get_player_stats(data) ==
    [i \in 1..Len(data.info.participants) |->
        [playerId |-> data.info.participants[i].puuid,
         matchId |-> data.metadata.matchId]]

(***************************************************************************)
(* database.py: the operations of the match worker.                        *)
(***************************************************************************)
\* A check that never finds the match: not what the code does.
match_on_db_never(match_id) == FALSE

\* match_on_db
match_on_db(match_id) ==
    \E i \in 1..Len(matches) : matches[i].matchId = match_id

\* update_player_if_exists: what it returns (None as FALSE) and the table
\* it leaves.
update_player_if_exists(player, matchDate) ==
    IF player.puuid \notin DOMAIN players
    THEN [ret |-> FALSE, players |-> players]
    ELSE LET player_exists == players[player.puuid]
         IN  IF player_exists.lastMatchFetch > matchDate
             THEN [ret |-> TRUE,
                   players |->
                       [players EXCEPT ![player.puuid] =
                           [@ EXCEPT !.summonerId = player.summonerId,
                                     !.gameName = player.gameName,
                                     !.tagLine = player.tagLine,
                                     !.summonerLevel = player.summonerLevel,
                                     !.profileIconId = player.profileIconId,
                                     !.lastMatchFetch = matchDate,
                                     !.region = player.region]]]
             ELSE [ret |-> TRUE, players |-> players]

\* update_last_fetch
update_last_fetch(puuid) ==
    [players EXCEPT ![puuid] = [@ EXCEPT !.lastMatchFetch = now]]

\* insert_match
insert_match(data) ==
    Append(matches, [matchId |-> data.matchId, matchStart |-> data.matchStart])

\* A lookup that answers with the id the next row of matches will get,
\* whether or not the match is stored: not what the code does.
get_match_id_unsaved(match_id) == Len(matches) + 1

\* get_match_id: the id of the first row of that matchId.
get_match_id(match_id) ==
    CHOOSE i \in 1..Len(matches) :
        /\ matches[i].matchId = match_id
        /\ \A j \in 1..(i - 1) : matches[j].matchId # match_id

\* insert_stats_list: the keys resolved to row ids, then the bulk insert
\* (a player row is identified by its puuid).
insert_stats_list(data_list) ==
    stats \o [i \in 1..Len(data_list) |->
                [playerId |-> data_list[i].playerId,
                 matchId |-> get_match_id(data_list[i].matchId)]]

(***************************************************************************)
(* main.py: main_region_fetching, the match worker of one main region.     *)
(***************************************************************************)
MatchWorkerStart ==
    [pc |-> "wait", next_player |-> None, match_list |-> <<>>,
     list_size |-> 0, i |-> 1, j |-> 1, new_p_info |-> <<>>, error |-> "none",
     \* history: the start values of the match-list requests of the iteration
     requests |-> <<>>]

\* The match the worker is at, and its treatment.
MatchAt(worker) == worker.match_list[worker.i]
m_info(worker) == get_match_info(MatchPayload[MatchAt(worker)])
p_info(worker) == get_player_info(MatchPayload[MatchAt(worker)])
p_stats(worker) == get_player_stats(MatchPayload[MatchAt(worker)])

\* The for loop over match_list goes on: the next match, or the cursor
\* (the locals of the match are dead from here on).
NextMatch(worker) ==
    IF worker.i < Len(worker.match_list)
    THEN [worker EXCEPT !.pc = "match", !.i = @ + 1, !.j = 1,
                        !.new_p_info = <<>>]
    ELSE [worker EXCEPT !.pc = "update_last_fetch", !.j = 1,
                        !.new_p_info = <<>>]

\* A poll that is made only when the ladder workers of the region are
\* asleep or have ended: not what the code does.
McPollAfterLadder(R) ==
    /\ mc[R].pc = "wait"
    /\ \A r \in regions[R] : lc[r].pc \in {"sleep", "dead"}
    /\ \E next \in get_next_to_fetch(regions[R]) :
         mc' = [mc EXCEPT ![R] = IF next = None THEN @
                                 ELSE [@ EXCEPT !.pc = "select"]]
    /\ UNCHANGED <<fetchVars, now, ladder, storeVars, collation, api, lc>>

\* main.py 135-137: the poll for a starting point.
McPoll(R) ==
    /\ mc[R].pc = "wait"
    /\ \E next \in get_next_to_fetch(regions[R]) :
         mc' = [mc EXCEPT ![R] = IF next = None THEN @
                                 ELSE [@ EXCEPT !.pc = "select"]]
    /\ UNCHANGED <<fetchVars, now, ladder, storeVars, collation, api, lc>>

\* main.py 148-151: the next player, the empty match list.
McSelect(R) ==
    /\ mc[R].pc = "select"
    /\ \E next_player \in get_next_to_fetch(regions[R]) :
         mc' = [mc EXCEPT ![R] = [@ EXCEPT !.next_player = next_player,
                                          !.match_list = <<>>,
                                          !.list_size = 0,
                                          !.pc = "list"]]
    /\ UNCHANGED <<fetchVars, now, ladder, storeVars, collation, api, lc>>

\* main.py 153-164: one request of the match list.
McList(R) ==
    /\ mc[R].pc = "list"
    /\ IF mc[R].next_player = None
       THEN \* next_player["puuid"] on None
            mc' = [mc EXCEPT ![R] = Raise(MatchWorkerStart, "TypeError")]
       ELSE \/ mc' = [mc EXCEPT ![R] = Raise(MatchWorkerStart, "FetchError")]
            \/ LET found == get_match_list(mc[R].next_player.puuid,
                                           mc[R].next_player.lastFetch,
                                           mc[R].list_size)
                   match_list == mc[R].match_list \o found
               IN  mc' = [mc EXCEPT ![R] =
                            [@ EXCEPT
                               !.requests = Append(@, mc[R].list_size),
                               !.match_list = match_list,
                               !.list_size = IF Len(found) = MatchPageSize
                                             THEN @ + MatchPageSize ELSE @,
                               !.i = 1,
                               !.pc = IF Len(found) = MatchPageSize THEN "list"
                                      ELSE IF match_list = <<>>
                                      THEN "update_last_fetch"
                                      ELSE "match"]]
    /\ UNCHANGED <<fetchVars, now, ladder, storeVars, collation, api, lc>>

\* main.py 169-181: the dedup gate, the fetch and the treatment of one match.
McMatch(R) ==
    /\ mc[R].pc = "match"
    /\ IF match_on_db(MatchAt(mc[R]))
       THEN mc' = [mc EXCEPT ![R] = NextMatch(@)]
       ELSE \/ mc' = [mc EXCEPT ![R] = Raise(MatchWorkerStart, "FetchError")]
            \/ mc' = [mc EXCEPT ![R] =
                        IF ~HasAttr(m_info(@), "matchId") THEN NextMatch(@)
                        ELSE IF get_player_info_raises(
                                    MatchPayload[MatchAt(@)])
                        THEN Raise(MatchWorkerStart, "TransformError")
                        ELSE [@ EXCEPT !.pc = "players", !.j = 1,
                                       !.new_p_info = <<>>]]
    /\ UNCHANGED <<fetchVars, now, ladder, storeVars, collation, api, lc>>

\* main.py 182-188: one participant of the match.
McUpdatePlayer(R) ==
    /\ mc[R].pc = "players"
    /\ LET player == p_info(mc[R])[mc[R].j]
           res == update_player_if_exists(player, m_info(mc[R]).matchStart)
       IN  /\ players' = res.players
           /\ mc' = [mc EXCEPT ![R] =
                       [@ EXCEPT
                          !.new_p_info = IF res.ret THEN @ ELSE Append(@, player),
                          !.j = @ + 1,
                          !.pc = IF mc[R].j < Len(p_info(mc[R]))
                                 THEN "players" ELSE "insert_players"]]
    /\ UNCHANGED <<fetchVars, now, ladder, ratings, matches, stats, collation, api, lc>>

\* main.py 190
McInsertPlayers(R) ==
    /\ mc[R].pc = "insert_players"
    /\ LET res == insert_player_list(mc[R].new_p_info)
       IN  /\ players' = res.players
           /\ mc' = [mc EXCEPT ![R] =
                       IF res.ok THEN [@ EXCEPT !.pc = "insert_match"]
                       ELSE Raise(MatchWorkerStart, "PersistenceError")]
    /\ UNCHANGED <<fetchVars, now, ladder, ratings, matches, stats, collation, api, lc>>

\* main.py 191
McInsertMatch(R) ==
    /\ mc[R].pc = "insert_match"
    /\ matches' = insert_match(m_info(mc[R]))
    /\ mc' = [mc EXCEPT ![R] = [@ EXCEPT !.pc = "insert_stats"]]
    /\ UNCHANGED <<fetchVars, now, ladder, ratings, players, stats, collation, api, lc>>

\* main.py 192
McInsertStats(R) ==
    /\ mc[R].pc = "insert_stats"
    /\ stats' = insert_stats_list(p_stats(mc[R]))
    /\ mc' = [mc EXCEPT ![R] = NextMatch(@)]
    /\ UNCHANGED <<fetchVars, now, ladder, ratings, players, matches, collation, api, lc>>

\* main.py 194: the cursor, and back to the head of the while loop (the
\* locals of the iteration are dead there).
McUpdateLastFetch(R) ==
    /\ mc[R].pc = "update_last_fetch"
    /\ players' = update_last_fetch(mc[R].next_player.puuid)
    /\ mc' = [mc EXCEPT ![R] = [MatchWorkerStart EXCEPT !.pc = "select"]]
    /\ UNCHANGED <<fetchVars, now, ladder, ratings, matches, stats, collation, api, lc>>

\* main.py 192, insert_data_list raising: the bulk insert of the stats
\* fails (SQLAlchemyError, rolled back) and the exception ends the worker.
McInsertStatsFails(R) ==
    /\ mc[R].pc = "insert_stats"
    /\ mc' = [mc EXCEPT ![R] = Raise(MatchWorkerStart, "PersistenceError")]
    /\ UNCHANGED <<fetchVars, now, ladder, storeVars, collation, api, lc>>

MatchWorker(R) ==
    \/ McPoll(R)
    \/ McSelect(R)
    \/ McList(R)
    \/ McMatch(R)
    \/ McUpdatePlayer(R)
    \/ McInsertPlayers(R)
    \/ McInsertMatch(R)
    \/ McInsertStats(R)
    \/ McUpdateLastFetch(R)

(***************************************************************************)
(* The environment: the clock, and the ladder standings changing.          *)
(***************************************************************************)
Tick(max) ==
    /\ now < max
    /\ now' = now + 1
    /\ UNCHANGED <<fetchVars, ladder, storeVars, collation, api, lc, mc>>

LadderChange ==
    /\ \E s \in Summoners, st \in Standings :
         /\ st # ladder[s]
         /\ ladder' = [ladder EXCEPT ![s] = st]
    /\ UNCHANGED <<fetchVars, now, storeVars, collation, api, lc, mc>>

FetchInit ==
    /\ fetcher = [w \in FetchWorkers |-> BaseFetcherInit]
    /\ fcall = [w \in FetchWorkers |-> NoCall]

Init ==
    /\ FetchInit
    /\ now = 1
    /\ ladder = [s \in Summoners |-> FirstStanding]
    /\ ratings = [s \in Summoners |-> <<>>]
    /\ players = <<>>
    /\ matches = <<>>
    /\ stats = <<>>
    /\ collation \in Collations
    /\ api = BaseApi
    /\ lc = [r \in SubRegions |-> LadderStart]
    /\ mc = [R \in MainRegions |-> MatchWorkerStart]

NextFetch ==
    /\ \E w \in FetchWorkers : FetchCall(w) \/ FetchIteration(w)
    /\ UNCHANGED <<now, ladder, storeVars, collation, api, lc, mc>>

SpecFetch == Init /\ [][NextFetch]_vars

NextRating ==
    \/ Ladder("br1")
    \/ Tick(MaxRatingTime)
    \/ LadderChange

SpecRating == Init /\ [][NextRating]_vars

Next ==
    \/ \E r \in SubRegions : Ladder(r)
    \/ \E R \in MainRegions : MatchWorker(R)
    \/ Tick(MaxTime)

Spec == Init /\ [][Next]_vars

\* Both match workers, the sweeps of br1's ladder worker and the brackets of
\* euw1's. The thread of a match worker is scheduled again and again: its
\* poll and its selection are taken when they stay possible.
NextGate ==
    \/ Ladder("br1")
    \/ LadderHighRank("euw1") \/ LadderCheck("euw1") \/ LadderSeed("euw1")
    \/ \E R \in MainRegions : MatchWorker(R)
    \/ Tick(MaxTime)

SpecGate ==
    /\ Init /\ [][NextGate]_vars
    /\ \A R \in MainRegions : WF_vars(McPoll(R)) /\ WF_vars(McSelect(R))

\* The americas workers, the API serving a long history of p1.
InitGames ==
    /\ FetchInit
    /\ now = 1
    /\ ladder = [s \in Summoners |-> FirstStanding]
    /\ ratings = [s \in Summoners |-> <<>>]
    /\ players = <<>>
    /\ matches = <<>>
    /\ stats = <<>>
    /\ collation \in Collations
    /\ api \in GameApis
    /\ lc = [r \in SubRegions |-> LadderStart]
    /\ mc = [R \in MainRegions |-> MatchWorkerStart]

NextGames ==
    \/ LadderHighRank("br1")
    \/ LadderCheck("br1")
    \/ LadderSeed("br1")
    \/ MatchWorker("americas")
    \/ Tick(MaxTime)

SpecGames == InitGames /\ [][NextGames]_vars

\* The brackets of both sub-regions and both match workers, with a store
\* that can fail on the insert of the stats. The thread of a match worker is
\* scheduled again and again.
NextResume ==
    \/ \E r \in SubRegions :
          LadderHighRank(r) \/ LadderCheck(r) \/ LadderSeed(r)
    \/ \E R \in MainRegions : MatchWorker(R) \/ McInsertStatsFails(R)
    \/ Tick(MaxTime)

SpecResume ==
    /\ Init /\ [][NextResume]_vars
    /\ \A R \in MainRegions : WF_vars(MatchWorker(R))

\* The americas workers, the API serving the history with the payload that
\* lacks a key.
InitBroken ==
    /\ FetchInit
    /\ now = 1
    /\ ladder = [s \in Summoners |-> FirstStanding]
    /\ ratings = [s \in Summoners |-> <<>>]
    /\ players = <<>>
    /\ matches = <<>>
    /\ stats = <<>>
    /\ collation \in Collations
    /\ api = BrokenApi
    /\ lc = [r \in SubRegions |-> LadderStart]
    /\ mc = [R \in MainRegions |-> MatchWorkerStart]

SpecBroken == InitBroken /\ [][NextGames]_vars

\* The brackets of both sub-regions and both match workers, euw1 with a
\* grandmaster. The thread of each worker is scheduled again and again.
InitBootstrap ==
    /\ FetchInit
    /\ now = 1
    /\ ladder = [s \in Summoners |-> FirstStanding]
    /\ ratings = [s \in Summoners |-> <<>>]
    /\ players = <<>>
    /\ matches = <<>>
    /\ stats = <<>>
    /\ collation \in Collations
    /\ api = EntrantApi
    /\ lc = [r \in SubRegions |-> LadderStart]
    /\ mc = [R \in MainRegions |-> MatchWorkerStart]

NextBootstrap ==
    \/ \E r \in SubRegions :
          LadderHighRank(r) \/ LadderCheck(r) \/ LadderSeed(r)
    \/ \E R \in MainRegions : MatchWorker(R)
    \/ Tick(MaxTime)

SpecBootstrap ==
    /\ InitBootstrap /\ [][NextBootstrap]_vars
    /\ \A r \in SubRegions :
          WF_vars(LadderHighRank(r) \/ LadderCheck(r) \/ LadderSeed(r))
    /\ \A R \in MainRegions : WF_vars(MatchWorker(R))

(***************************************************************************)
(* Claims about BaseFetcher.fetch (checked under SpecFetch).               *)
(***************************************************************************)
\* The requests of a call, in order.
Requests(w) == SelectSeq(fcall[w].log, LAMBDA e : e.ev = "get")
Sleeps(w) == SelectSeq(fcall[w].log, LAMBDA e : e.ev = "sleep")
IsErrorStatus(s) == s # 200 /\ s # 429

\* C6: a 429 response is never surfaced as a failure and never consumes the
\* retry budget: a call whose last response is a 429 has not raised (it goes
\* on to the next request), and a call that got only 429s and then a 200 has
\* returned the body with the retry counter unchanged (0).
C6_RateLimitNeverSurfaces ==
    \A w \in FetchWorkers :
        LET g == Requests(w)
        IN  /\ (g # <<>> /\ g[Len(g)].arg = 429) => fcall[w].pc = "loop"
            /\ (g # <<>> /\ \A i \in 1..Len(g) : g[i].arg \in {200, 429})
                   => /\ fcall[w].pc # "raised"
                      /\ fetcher[w].retry_count = 0

\* C7: each 429 records its Retry-After value (1 without the header) as the
\* pending backoff; the client sleeps for exactly that value exactly once
\* before the next request of the call and clears it; a 429 with Retry-After
\* 5 followed by a 200 gives the log get, sleep 5, get, the body returned and
\* the retry counter 0.
C7_BackoffOncePerRateLimit ==
    \A w \in FetchWorkers :
        LET log == fcall[w].log
        IN  /\ \A i \in 1..Len(log) :
                  (log[i].ev = "get" /\ log[i].arg = 429) =>
                      IF i = Len(log)
                      THEN /\ fcall[w].pc = "loop"
                           /\ fetcher[w].retry_timer = log[i].backoff
                      ELSE /\ i + 2 <= Len(log)
                           /\ log[i + 1] = Sleep(log[i].backoff)
                           /\ log[i + 2].ev = "get"
            /\ (Len(Requests(w)) = 2 /\ Requests(w)[1].arg = 429
                   /\ Requests(w)[1].backoff = 5 /\ Requests(w)[2].arg = 200)
                  => /\ Sleeps(w) = <<Sleep(5)>>
                     /\ fcall[w].pc = "returned"
                     /\ fetcher[w].retry_count = 0
                     /\ fetcher[w].retry_timer = 0

\* C8: a call that gets only error statuses (neither 200 nor 429) fails with
\* the fetch error after exactly three requests: it has not raised before
\* the third, and it issues no fourth.
C8_ThreeAttempts ==
    \A w \in FetchWorkers :
        LET g == Requests(w)
        IN  (g # <<>> /\ \A i \in 1..Len(g) : IsErrorStatus(g[i].arg)) =>
                /\ Len(g) <= 3
                /\ Len(g) < 3 => fcall[w].pc = "loop"
                /\ Len(g) = 3 => (fcall[w].pc = "raised"
                                    /\ fcall[w].error = "FetchError")

\* C24: a step of the fetch of one worker leaves the instance and the call
\* of every other worker unchanged, and what it does to its own instance and
\* call (the sleep it makes, the attributes it leaves, how the pass ends) is
\* determined by its own instance and the response it got; so no worker
\* sleeps for a backoff, or fails on a response, that another worker got.
C24_RateLimitStatePrivate ==
    [][\A w \in FetchWorkers :
          fcall'[w] # fcall[w] =>
              /\ \A v \in FetchWorkers \ {w} :
                    fetcher'[v] = fetcher[v] /\ fcall'[v] = fcall[v]
              /\ fcall[w].pc = "loop" =>
                    \E resp \in Responses :
                        LET r == FetchPass(fetcher[w], resp)
                        IN  /\ fetcher'[w] = r.self
                            /\ fcall'[w].log = fcall[w].log \o r.evs
                            /\ fcall'[w].pc = r.pc
                            /\ fcall'[w].error = r.error
              /\ fcall[w].pc # "loop" => fetcher'[w] = fetcher[w]]_vars

\* The instance of the ladder worker holds a pending backoff of 5 and its
\* call has failed, while the call of the match worker got a 200 at its
\* first request, without a sleep, and its instance holds no backoff.
C24_Witness ==
    /\ fetcher["sub"].retry_timer = 5
    /\ fcall["sub"].pc = "raised"
    /\ fcall["main"].pc = "returned"
    /\ fcall["main"].log = <<Get([status |-> 200, hasRetryAfter |-> FALSE,
                                  retryAfter |-> 1])>>
    /\ fetcher["main"].retry_timer = 0

\* C25: when a call of fetch has returned a body, the retry counter of the
\* instance is 0 and its pending backoff is 0, whatever the earlier calls on
\* the instance got.
C25_CleanOnReturn ==
    \A w \in FetchWorkers :
        fcall[w].pc = "returned" =>
            /\ fetcher[w].retry_count = 0
            /\ fetcher[w].retry_timer = 0
            /\ HasAttr(fetcher[w], "retry_counter") =>
                   fetcher[w].retry_counter = 0

\* A call has returned a body after sleeping for the backoff of 5 that a 429
\* of an earlier call on the instance had left.
C25_Witness ==
    \E w \in FetchWorkers :
        /\ fcall[w].pc = "returned"
        /\ fcall[w].ncalls >= 2
        /\ Sleeps(w) = <<Sleep(5)>>

(***************************************************************************)
(* Claims about the rating snapshots (checked under SpecRating).           *)
(***************************************************************************)
\* The snapshots of summoner s in capture order.
History(s) == ratings[s]
SameStanding(a, b) ==
    /\ a.leaguePoints = b.leaguePoints
    /\ a.wins = b.wins
    /\ a.losses = b.losses

\* C3: a snapshot is written only if it differs from the latest stored
\* snapshot of its summoner, so the capture-ordered history of a summoner
\* never holds two adjacent snapshots of the same (leaguePoints, wins,
\* losses).
C3_NoAdjacentDuplicates ==
    \A s \in Summoners :
        \A i \in 1..(Len(History(s)) - 1) :
            ~SameStanding(History(s)[i], History(s)[i + 1])

\* C4: a run of get_rating_list and insert_player_rating_list on the payload
\* of the run before it (same bracket or page, same entries) stores nothing.
C4_SecondRunStoresNothing ==
    \A r \in SubRegions : lc[r].rerun => lc[r].treated = <<>>

\* The step of ladder worker r that requests a page.
RequestsPage(r) == lc[r].pc = "page" /\ lc'[r] # lc[r]
\* The place of a (tier, division) in the order of the sweep.
DivisionOrder(worker) == worker.ti * (Len(divisions) + 1) + worker.di

\* C12: the pages of a (tier, division) are requested in the order 1, 2, 3,
\* ...; a page of length 0 ends the pagination of its (tier, division), the
\* worker going on to page 1 of a later one or to the end of the sweep with
\* nothing stored; a page that is not empty is treated and inserted in the
\* step that requests it, and the next page of the same (tier, division) is
\* the next request.
C12_PaginationStopsAtEmptyPage ==
    [][\A r \in SubRegions :
          /\ (lc[r].pc # "page" /\ lc'[r].pc = "page") =>
                lc'[r].ti = 1 /\ lc'[r].di = 1 /\ lc'[r].page = 1
          /\ RequestsPage(r) =>
                LET w == lc[r]
                    data == RankPageResponse(r, tiers[w.ti], divisions[w.di],
                                             w.page)
                IN  \/ lc'[r].pc = "dead" /\ ratings' = ratings
                    \/ /\ Len(data) = 0
                       /\ ratings' = ratings
                       /\ \/ lc'[r].pc = "sleep"
                          \/ /\ lc'[r].pc = "page"
                             /\ lc'[r].page = 1
                             /\ DivisionOrder(lc'[r]) > DivisionOrder(w)
                    \/ /\ Len(data) > 0
                       /\ \E t \in get_rating_list(data, r, FALSE) :
                             ratings' = insert_player_rating_list(t)
                       /\ lc'[r].pc = "page"
                       /\ DivisionOrder(lc'[r]) = DivisionOrder(w)
                       /\ lc'[r].page = w.page + 1]_vars

\* A ladder worker has stored the one page of a division that is not empty,
\* got the empty page after it and is at the next division.
C12_Witness ==
    \E r \in SubRegions :
        /\ lc[r].pc = "page"
        /\ lc[r].di = 2
        /\ lc[r].page = 1
        /\ \E s \in Summoners : \E i \in 1..Len(ratings[s]) :
              ratings[s][i].tier = "DIAMOND"

(***************************************************************************)
(* Claims about the players and the matches (checked under Spec).          *)
(***************************************************************************)
\* C1: the stored cursor lastMatchFetch of a player never decreases: every
\* step leaves each stored player's cursor greater than or equal to the value
\* stored before.
C1_CursorNeverDecreases ==
    [][\A p \in DOMAIN players :
          p \in DOMAIN players' =>
              players'[p].lastMatchFetch >= players[p].lastMatchFetch]_vars

\* C2: the store never holds two rows of matches with the same matchId,
\* whatever the interleaving of the match workers.
C2_MatchIdUnique ==
    \A i, j \in 1..Len(matches) :
        matches[i].matchId = matches[j].matchId => i = j

\* The step of worker R that treats one participant of its match.
TreatsParticipant(R) == mc[R].pc = "players" /\ mc'[R] # mc[R]
DisplayFields(row) ==
    <<row.summonerId, row.gameName, row.tagLine, row.summonerLevel,
      row.profileIconId>>

\* C5: when the participant treated is a stored player whose cursor is newer
\* than the start of the match, the observation is kept out of the insert
\* batch and the stored row is left unchanged; and the display fields of the
\* stored row change only when the start of the match is strictly newer than
\* the stored cursor.
C5_StaleObservationDropped ==
    [][\A R \in MainRegions :
          TreatsParticipant(R) =>
              LET player == p_info(mc[R])[mc[R].j]
                  start == m_info(mc[R]).matchStart
              IN  player.puuid \in DOMAIN players =>
                    LET stored == players[player.puuid]
                        after == players'[player.puuid]
                    IN  /\ stored.lastMatchFetch > start =>
                              /\ mc'[R].new_p_info = mc[R].new_p_info
                              /\ after = stored
                        /\ DisplayFields(after) # DisplayFields(stored) =>
                              start > stored.lastMatchFetch]_vars

\* The stored players the store counts as of the regions regs.
Eligible(regs) ==
    {p \in DOMAIN players : RegionIn(players[p].region, regs)}

\* C9: for every set of regions, get_next_to_fetch returns None exactly when
\* no stored player is of those regions, and otherwise a stored player of
\* those regions whose cursor is the minimum among them (of two eligible
\* players of cursors T1 < T2, the one of cursor T1).
C9_OldestFirst ==
    \A regs \in SUBSET SubRegions :
        \A next \in get_next_to_fetch(regs) :
            /\ next = None <=> Eligible(regs) = {}
            /\ next # None =>
                  /\ next.puuid \in Eligible(regs)
                  /\ next.lastFetch = players[next.puuid].lastMatchFetch
                  /\ \A p \in Eligible(regs) :
                        next.lastFetch <= players[p].lastMatchFetch

\* Two eligible players of cursors T1 < T2, and the worker of their region
\* holds the selection of the one of cursor T1.
C9_Witness ==
    \E R \in MainRegions :
        \E p, q \in Eligible(regions[R]) :
            /\ players[p].lastMatchFetch < players[q].lastMatchFetch
            /\ mc[R].pc \in {"match", "update_last_fetch"}
            /\ mc[R].next_player =
                   [puuid |-> p, lastFetch |-> players[p].lastMatchFetch]
            /\ mc[R].next_player \in get_next_to_fetch(regions[R])

\* C10: the match worker of a region keeps selecting the players of its
\* region for as long as its fetches and inserts succeed: it stops only on a
\* failed fetch or a failed insert, so a player it has selected is selected
\* again.
C10_CrawlerKeepsSelecting ==
    \A R \in MainRegions :
        mc[R].pc = "dead" => mc[R].error \in {"FetchError", "PersistenceError"}

\* The puuids of the participants of match m.
ParticipantsOf(m) ==
    {MatchPayload[m].info.participants[k].puuid :
        k \in 1..Len(MatchPayload[m].info.participants)}
\* A row of matches of match m is stored.
Stored(m) == \E i \in 1..Len(matches) : matches[i].matchId = m

\* C14: every row of stats references a stored row of matches and a stored
\* row of players; a worker inserts the row of a match only when all its
\* participants are stored, and the stats of a match only when the row of the
\* match is stored as well; a step in which a worker fails (a fetch or an
\* insert) adds no row of matches and no row of stats.
C14_ReferentialIntegrity ==
    /\ [](\A i \in 1..Len(stats) :
              /\ stats[i].playerId \in DOMAIN players
              /\ stats[i].matchId \in 1..Len(matches)
              /\ stats[i].playerId
                     \in ParticipantsOf(matches[stats[i].matchId].matchId))
    /\ [][\A R \in MainRegions :
            /\ (mc[R].pc = "insert_match" /\ mc'[R] # mc[R]) =>
                  ParticipantsOf(MatchAt(mc[R])) \subseteq DOMAIN players
            /\ (mc[R].pc = "insert_stats" /\ mc'[R] # mc[R]) =>
                  /\ ParticipantsOf(MatchAt(mc[R])) \subseteq DOMAIN players
                  /\ Stored(MatchAt(mc[R]))
            /\ (mc[R].pc # "dead" /\ mc'[R].pc = "dead") =>
                  matches' = matches /\ stats' = stats]_vars

\* The insert of the new players of a match has failed in one worker, and
\* the stats of a match are stored.
C14_Witness ==
    /\ stats # <<>>
    /\ \E R \in MainRegions : mc[R].error = "PersistenceError"

\* The puuids of a batch of player mappings.
BatchPuuids(batch) == {batch[k].puuid : k \in 1..Len(batch)}
\* The insert of batch is refused when it holds a stored puuid, or one puuid
\* twice.
Refused(batch) ==
    \/ BatchPuuids(batch) \cap DOMAIN players # {}
    \/ Cardinality(BatchPuuids(batch)) # Len(batch)
\* A step that stores exactly the rows of batch, one for each new puuid.
StoresBatch(batch) ==
    /\ DOMAIN players' = DOMAIN players \cup BatchPuuids(batch)
    /\ \A p \in DOMAIN players : players'[p] = players[p]

\* C15: the store holds one row of players for each puuid, for every
\* interleaving of the inserts of the ladder workers (insert_starting_point)
\* and of the match workers (insert_player_list): no row is ever removed, an
\* insert of new puuids adds one row for each of them, and an insert that
\* holds a stored puuid stores nothing (the worker that made it ends).
C15_PuuidUnique ==
    /\ [](\A p \in DOMAIN players : players[p].puuid = p)
    /\ [][/\ DOMAIN players \subseteq DOMAIN players'
          /\ \A R \in MainRegions :
                (mc[R].pc = "insert_players" /\ mc'[R] # mc[R]) =>
                    IF Refused(mc[R].new_p_info)
                    THEN players' = players /\ mc'[R].pc = "dead"
                    ELSE StoresBatch(mc[R].new_p_info)
          /\ \A r \in SubRegions :
                (lc[r].pc = "seed" /\ lc'[r] # lc[r]) =>
                    LET summoner ==
                            SummonerAccount[lc[r].treated[lc[r].k].summonerId]
                    IN  \/ lc'[r].error = "FetchError" /\ players' = players
                        \/ IF Refused(<<summoner>>)
                           THEN players' = players /\ lc'[r].pc = "dead"
                           ELSE StoresBatch(<<summoner>>)]_vars

\* A ladder worker tried to bootstrap a puuid that a match worker had stored
\* as a participant.
C15_Witness ==
    \E r \in SubRegions :
        /\ lc[r].error = "PersistenceError"
        /\ \E p \in DOMAIN players : players[p].gameName # NULL

\* The step of worker R that sends a match-list request, and the one that
\* sends a match-detail request.
RequestsList(R) ==
    mc[R].pc = "list" /\ mc'[R] # mc[R] /\ mc'[R].error # "TypeError"
RequestsDetail(R) ==
    mc[R].pc = "match" /\ mc'[R] # mc[R] /\ ~Stored(MatchAt(mc[R]))

\* C16: a match worker sends no match-list request and no match-detail
\* request while the store holds no player of the sub-regions of its region,
\* and it leaves the poll for the selection only in a step in which the store
\* holds such a player.
C16_BootstrapGate ==
    [][\A R \in MainRegions :
          /\ (mc[R].pc = "wait" /\ mc'[R].pc # "wait") =>
                mc'[R].pc = "select" /\ Eligible(regions[R]) # {}
          /\ RequestsList(R) => Eligible(regions[R]) # {}
          /\ RequestsDetail(R) => Eligible(regions[R]) # {}]_vars

\* The worker is inside an outer iteration: it has selected a player and has
\* not yet reached the end of the iteration.
InIteration(w) ==
    /\ w.pc \in {"list", "match", "players", "insert_players",
                 "insert_match", "insert_stats"}
    /\ w.next_player # None

\* The stored cursor of the player the worker selected.
SelectedCursor(w, rows) == rows[w.next_player.puuid].lastMatchFetch

\* C17: the step that ends an outer iteration is taken after the whole list
\* was treated and sets the selected player's cursor to the current time; no
\* other step of the iteration changes that cursor, and a step in which a
\* fetch or an insert fails leaves the cursor at the value the selection
\* read.
C17_CursorOncePerIteration ==
    [][\A R \in MainRegions :
          LET w == mc[R]
          IN  /\ (w.pc # "update_last_fetch"
                     /\ mc'[R].pc = "update_last_fetch") =>
                    \/ w.pc = "list" /\ mc'[R].match_list = <<>>
                    \/ /\ w.pc \in {"match", "insert_stats"}
                       /\ w.i = Len(w.match_list)
              /\ (w.pc = "update_last_fetch" /\ mc'[R] # w) =>
                    /\ SelectedCursor(w, players') = now
                    /\ mc'[R].pc = "select"
              /\ (InIteration(w) /\ mc'[R] # w) =>
                    SelectedCursor(w, players') = SelectedCursor(w, players)
              /\ (InIteration(w) /\ mc'[R].pc = "dead") =>
                    SelectedCursor(w, players') = w.next_player.lastFetch]_vars

\* The worker is treating one match of the list of its selected player.
TreatingMatch(w) ==
    w.pc \in {"match", "players", "insert_players", "insert_match",
              "insert_stats"}

\* C18: a step in which a fetch or an insert fails while a worker treats a
\* match of its selected player takes the worker back to the head of its
\* outer loop, where it goes on selecting players (so the player is selected
\* again and the matches not yet stored are tried again).
C18_RetryAfterFailure ==
    [][\A R \in MainRegions :
          (TreatingMatch(mc[R])
             /\ mc'[R].error \in {"FetchError", "PersistenceError"}) =>
                mc'[R].pc = "select"]_vars

\* C19: a worker reaches the detail request of a match id, and with it the
\* inserts of that match, only through the existence check of that id; when
\* a row of the id is stored at the check, the worker sends no request (so no
\* fetch can fail), stores nothing and goes on with the next id of the list.
C19_DedupGate ==
    [][\A R \in MainRegions :
          LET w == mc[R]
          IN  /\ (w.pc = "match" /\ mc'[R] # w /\ Stored(MatchAt(w))) =>
                    /\ mc'[R].error = "none"
                    /\ mc'[R].pc \in {"match", "update_last_fetch"}
                    /\ mc'[R].pc = "match" => mc'[R].i = w.i + 1
                    /\ UNCHANGED storeVars
              /\ (w.pc # "players" /\ mc'[R].pc = "players") =>
                    w.pc = "match" /\ ~Stored(MatchAt(w))
              /\ (mc'[R] # w /\ mc'[R].pc \in {"insert_players",
                                               "insert_match",
                                               "insert_stats"}) =>
                    /\ w.pc \in {"players", "insert_players", "insert_match"}
                    /\ mc'[R].i = w.i]_vars

\* Both workers have finished the list <<"m1">> and one row of m1 is stored:
\* one of them stored it, the other found it at the check and skipped it.
C19_Witness ==
    /\ \A R \in MainRegions :
          mc[R].pc = "update_last_fetch" /\ mc[R].match_list = <<"m1">>
    /\ Len(matches) = 1
    /\ Stored("m1")

\* C20: when the participant treated is a stored player whose cursor is not
\* newer than the start of the match, the observation is appended to the
\* batch of players of the match; an observation of a stored player is kept
\* out of the batch only when the stored cursor is newer than the start.
C20_FreshObservationQueued ==
    [][\A R \in MainRegions :
          TreatsParticipant(R) =>
              LET player == p_info(mc[R])[mc[R].j]
                  start == m_info(mc[R]).matchStart
              IN  (/\ player.puuid \in DOMAIN players
                   /\ players[player.puuid].lastMatchFetch <= start) =>
                      mc'[R].new_p_info = Append(mc[R].new_p_info, player)]_vars

\* C21: a ladder worker that met an error (a failed fetch, a failed insert)
\* has ended: it takes no further step, so it sends no request and starts no
\* new sweep; the step in which it fails writes nothing to the store and
\* leaves every other ladder worker and every match worker as they were, and
\* these go on taking steps afterwards.
C21_LadderFailureEndsWorker ==
    /\ [](\A r \in SubRegions : lc[r].error # "none" <=> lc[r].pc = "dead")
    /\ [][\A r \in SubRegions :
             /\ lc[r].error # "none" => lc'[r] = lc[r]
             /\ (lc[r].error = "none" /\ lc'[r].error # "none") =>
                   /\ lc[r].pc \in {"high", "seed", "page"}
                   /\ \A q \in SubRegions \ {r} : lc'[q] = lc[q]
                   /\ mc' = mc
                   /\ UNCHANGED storeVars]_vars

\* The ladder worker of br1 has ended on an error; the ladder worker of euw1
\* is in its rank pages and the match worker of each region is treating a
\* match list.
C21_Witness ==
    /\ lc["br1"].pc = "dead"
    /\ lc["euw1"].pc = "page"
    /\ mc["europe"].pc = "match"
    /\ mc["americas"].pc \in {"match", "players", "insert_players"}

\* C28: once a match worker has left its poll, the store holds a player of
\* its sub-regions for as long as the worker runs, so every selection it
\* makes returns a player and none ends in the TypeError of a None.
C28_SelectionReturnsPlayer ==
    \A R \in MainRegions :
        /\ mc[R].pc \notin {"wait", "dead"} => Eligible(regions[R]) # {}
        /\ mc[R].pc = "list" => mc[R].next_player # None
        /\ mc[R].error # "TypeError"

(***************************************************************************)
(* Claims about the bootstrap (checked under SpecBootstrap).               *)
(***************************************************************************)
\* The ladder worker of r is registering the entries of a bracket.
Registering(r) == lc[r].pc = "seed"

\* The store holds a player of r outside a registration of r's ladder worker.
Bootstrapped(r) == Eligible({r}) # {} /\ ~Registering(r)

\* C22: a ladder worker starts registering the entries of a bracket only
\* from a check of the store that found no player of its sub-region, each
\* registration adds the player of the entry at hand with the default
\* cursor, and once the store holds a player of the sub-region the ladder
\* worker never registers again, in no later bracket and in no later sweep.
C22_BootstrapOnce ==
    /\ [][\A r \in SubRegions :
             /\ (~Registering(r) /\ Registering(r)') =>
                   lc[r].pc = "check" /\ Eligible({r}) = {}
             /\ (Registering(r) /\ players' # players /\ lc'[r] # lc[r]) =>
                   LET p == SummonerAccount[
                                lc[r].treated[lc[r].k].summonerId].puuid
                   IN  /\ DOMAIN players' = DOMAIN players \cup {p}
                       /\ p \notin DOMAIN players
                       /\ players'[p].lastMatchFetch = DefaultLastMatchFetch
                       /\ players'[p].region = r]_vars
    /\ \A r \in SubRegions : [](Bootstrapped(r) => []~Registering(r))

(***************************************************************************)
(* Claims about the gate of the match worker (checked under SpecGate).     *)
(***************************************************************************)
\* The match worker of R has made a selection that returned a player.
Selected(R) == mc[R].pc = "list" /\ mc[R].next_player # None

\* C23: a match worker that waits at its poll while the store holds a player
\* of one of its sub-regions leaves the poll and makes its first selection,
\* which returns a player, whatever the ladder workers of the region are
\* doing.
C23_GateOpens ==
    \A R \in MainRegions :
        (mc[R].pc = "wait" /\ Eligible(regions[R]) # {}) ~> Selected(R)

\* A match worker has made its selection while the ladder worker of its
\* sub-region is in its rank pages or asleep.
C23_Witness ==
    \E R \in MainRegions :
        /\ Selected(R)
        /\ \E r \in regions[R] : lc[r].pc \in {"page", "sleep"}

(***************************************************************************)
(* Claims about a payload the treatment fails on (checked under            *)
(* SpecBroken).                                                            *)
(***************************************************************************)
\* The step of worker R in which the treatment of the payload of its match
\* raises.
TreatmentRaises(R) ==
    /\ mc[R].pc = "match"
    /\ mc'[R] # mc[R]
    /\ ~Stored(MatchAt(mc[R]))
    /\ mc'[R].error # "FetchError"
    /\ get_player_info_raises(MatchPayload[MatchAt(mc[R])])

\* C26: when the treatment of the payload of a match raises, the worker
\* stores nothing for that match and goes on with the next id of its list
\* (or, after the last id, with the cursor), in the same iteration.
C26_TransformErrorSkipsMatch ==
    [][\A R \in MainRegions :
          TreatmentRaises(R) =>
              /\ UNCHANGED storeVars
              /\ mc'[R].error = "none"
              /\ mc'[R].pc \in {"match", "update_last_fetch"}
              /\ mc'[R].match_list = mc[R].match_list
              /\ mc'[R].pc = "match" => mc'[R].i = mc[R].i + 1]_vars

(***************************************************************************)
(* Claims about a failing store (checked under SpecResume).                *)
(***************************************************************************)
\* Every participant of match m has a row of stats that references a row of
\* m.
Complete(m) ==
    \A p \in ParticipantsOf(m) :
        \E i \in 1..Len(stats) :
            /\ stats[i].playerId = p
            /\ stats[i].matchId \in 1..Len(matches)
            /\ matches[stats[i].matchId].matchId = m

\* C27: a match whose row is stored gets the stats of all its participants
\* in the end, also when the insert of the stats failed the first time: a
\* later pass over the match id writes them.
C27_MatchCompleted == Stored("m1") ~> Complete("m1")

(***************************************************************************)
(* Claims about one match worker on a long history (checked under          *)
(* SpecGames).                                                             *)
(***************************************************************************)
Aborted(m) == MatchPayload[m].info.endOfGameResult = "Abort_Unexpected"
\* The players the API shows in aborted games only.
AbortedOnly ==
    {p \in Puuids : /\ \E m \in MatchIds : PlayedIn(p, m)
                    /\ \A m \in MatchIds : PlayedIn(p, m) => Aborted(m)}
\* The step of worker R that runs the gate and the treatment of a match.
TreatsMatch(R) == mc[R].pc = "match" /\ mc'[R] # mc[R]

\* C11: an aborted game leaves no trace: the store never holds a row of
\* matches of its id, nor a row of players or of stats of a player seen in
\* aborted games only, and the step that treats its payload changes no table
\* and goes on with the next match of the list (or ends on a failed fetch).
C11_AbortedLeavesNoTrace ==
    /\ [](/\ \A i \in 1..Len(matches) : ~Aborted(matches[i].matchId)
          /\ \A p \in AbortedOnly :
                /\ p \notin DOMAIN players
                /\ \A i \in 1..Len(stats) : stats[i].playerId # p)
    /\ [][\A R \in MainRegions :
            (TreatsMatch(R) /\ Aborted(MatchAt(mc[R]))) =>
                /\ UNCHANGED storeVars
                /\ \/ mc'[R].pc = "dead"
                   \/ mc'[R].pc = "update_last_fetch"
                        /\ mc[R].i = Len(mc[R].match_list)
                   \/ mc'[R].pc = "match" /\ mc'[R].i = mc[R].i + 1]_vars

\* A worker has treated an aborted game and is at a later match of its list.
C11_Witness ==
    \E R \in MainRegions :
        /\ mc[R].pc \in {"match", "players", "insert_players", "insert_match",
                         "insert_stats"}
        /\ mc[R].i > 1
        /\ Aborted(mc[R].match_list[mc[R].i - 1])
        /\ ~match_on_db(mc[R].match_list[mc[R].i])

\* The start values 0, 100, ... of the first n requests.
Offsets(n) == [k \in 1..n |-> (k - 1) * MatchPageSize]
\* The API's whole list for the player selected by worker, from its cursor.
FullList(worker) ==
    MatchesSince(worker.next_player.puuid, worker.next_player.lastFetch)
\* The first n elements of q (all of q when it has fewer).
Prefix(q, n) == [k \in 1..(IF n < Len(q) THEN n ELSE Len(q)) |-> q[k]]

\* C13: the match list of the selected player is requested at the start
\* values 0, 100, 200, ... with the cursor as lower time bound; the start
\* value advances by 100 after each page of exactly 100 ids and the paging
\* stops at the first page of fewer than 100 ids; the accumulated list is the
\* pages in order, so the whole list from the cursor on; a list of exactly
\* 100 ids takes the two requests 0 and 100.
C13_MatchListPagination ==
    \A R \in MainRegions :
        LET w == mc[R]
            full == FullList(w)
        IN  /\ (w.pc = "list" /\ w.next_player # None) =>
                  /\ w.requests = Offsets(Len(w.requests))
                  /\ w.list_size = Len(w.requests) * MatchPageSize
                  /\ Len(w.match_list) = w.list_size
                  /\ w.match_list = Prefix(full, w.list_size)
            /\ w.pc \in {"match", "players", "insert_players", "insert_match",
                         "insert_stats", "update_last_fetch"} =>
                  /\ w.match_list = full
                  /\ w.requests =
                         Offsets((Len(w.match_list) \div MatchPageSize) + 1)
                  /\ Len(w.match_list) = 100 => w.requests = <<0, 100>>

\* A worker has the list of a player of exactly 100 matches, requested at
\* the start values 0 and 100.
C13_Witness ==
    \E R \in MainRegions :
        /\ mc[R].pc = "match"
        /\ Len(mc[R].match_list) = 100
        /\ mc[R].requests = <<0, 100>>

====
